---------------------------- MODULE Spec2Model ----------------------------
(***************************************************************************)
(* Model of the notebook 02.guideline.eager.ipynb: the gradient-tape demo, *)
(* the MNIST training loop, the linear-model training loop and the         *)
(* checkpoint save/restore cell, executed top to bottom as one script.     *)
(*                                                                         *)
(* Tensor values are abstracted.  A variable's value is the record         *)
(* [init, gen]: the initializer it was created with and the number of      *)
(* optimizer updates applied to it since.  A loss value is identified by   *)
(* the batch and the parameter values it was computed from.                *)
(***************************************************************************)
EXTENDS Integers, Sequences, FiniteSets, TLC

(* ---------------------------- program constants ------------------------ *)

MnistTrainImages == 60000
BatchSize == 32
TakeCount == 400
RangeCount == 300
LogEvery == 20

(* ------------------------------- bounds -------------------------------- *)

\* number of checkpoints a previous run may have left in ./model_dir
MaxOldCkpt == 2

(* ------------------------------ helpers -------------------------------- *)

Range(s) == {s[k] : k \in DOMAIN s}

Min(a, b) == IF a < b THEN a ELSE b

NoVar == -1

NoValue == [init |-> "None", gen |-> 0]

NoGrad == [wrt |-> "None", at |-> NoValue]

NoLoss == [batch |-> -1, params |-> <<>>]

\* dataset.shuffle(1000).batch(32): the last batch may be partial
NumBatches == (MnistTrainImages + BatchSize - 1) \div BatchSize

\* dataset.take(n) yields the first n batches, or all of them if there are fewer
Take(n) == Min(n, NumBatches)

(* ------------------------------ variables ------------------------------ *)

\* w = tf.Variable([[1.0]])
DemoVars == <<"w">>

\* mnist_model.variables: Conv2D, Conv2D, (pooling has none), Dense
MnistVars == <<"conv2d/kernel", "conv2d/bias", "conv2d_1/kernel", "conv2d_1/bias",
               "dense/kernel", "dense/bias">>

\* Model.__init__: self.W = tf.Variable(5.), self.B = tf.Variable(10.)
ModelVars == <<"W", "B">>

Initializer(v) ==
  CASE v = "w" -> "1.0"
    [] v = "W" -> "5.0"
    [] v = "B" -> "10.0"
    [] v \in {"conv2d/kernel", "conv2d_1/kernel", "dense/kernel"} -> "glorot_uniform"
    [] OTHER -> "zeros"

\* tape.gradient(loss_value, mnist_model.variables)
MnistSources == MnistVars

\* zip(grads, mnist_model.variables)
MnistApplyVars == MnistVars

\* tape.gradient(loss_value, [model.W, model.B])
LinearSources == <<"W", "B">>

\* zip(grads, [model.W, model.B])
LinearApplyVarsSwapped == <<"B", "W">>

LinearApplyVars == <<"W", "B">>

\* the model of the checkpoint cell is never called, so it has built no variable
CkptModelVars == <<>>

VARIABLES
  pc,            \* the statement about to be executed
  err,           \* the statement whose exception ended the script, or "none"
  batch,         \* loop variable of the MNIST loop
  i,             \* loop variable of the linear loop
  vals,          \* the value of every tf.Variable created so far
  gstep,         \* the global step, NoVar until it is created
  tape,          \* the gradient tape: whether it records, and what it holds
  loss_value,    \* the loss of the last forward pass under a tape
  grads,         \* the result of the last tape.gradient call
  loss_history,  \* the list the MNIST loop appends to
  printed,       \* the losses printed by the linear-model cell
  save_counter,  \* root.save_counter
  disk,          \* ./model_dir: checkpoint files and the checkpoint state file
  atSave,        \* history: the in-memory state when root.save was called
  fwd, grd, app  \* history: taped forward passes, gradient calls, apply_gradients
                 \* calls completed, per training loop

vars == <<pc, err, batch, i, vals, gstep, tape, loss_value, grads,
          loss_history, printed, save_counter, disk, atSave, fwd, grd, app>>

(* ------------------------- framework operations ------------------------ *)

\* creating the variables of a model (tf.Variable, or a layer's build on first call)
CreateVariables(mvars, vs) ==
  [v \in DOMAIN vs \cup Range(mvars) |->
     IF v \in DOMAIN vs THEN vs[v] ELSE [init |-> Initializer(v), gen |-> 0]]

\* model(inputs): builds the layers on first use, reads the variables, changes none
ModelCallTouches(mvars, vs) ==
  [v \in DOMAIN vs \cup Range(mvars) |->
     IF v \in DOMAIN vs
       THEN (IF v \in Range(mvars) THEN [vs[v] EXCEPT !.gen = @ + 1] ELSE vs[v])
       ELSE [init |-> Initializer(v), gen |-> 0]]

ModelCall(mvars, vs) == CreateVariables(mvars, vs)

\* what an open tape records when the variables mvars are read
Record(t, mvars, vs) ==
  IF t.recording
    THEN [t EXCEPT !.ops = @ \cup {[var |-> mvars[k], val |-> vs[mvars[k]]] : k \in DOMAIN mvars}]
    ELSE t

\* with tf.GradientTape() as tape: a fresh tape, recording
TapeEnter == [recording |-> TRUE, ops |-> {}]

\* leaving the with block stops the recording; the tape keeps what it recorded
TapeExit(t) == [t EXCEPT !.recording = FALSE]

\* a non-persistent tape drops its record once gradient() has been called
TapeKeep(t) == t

TapeRelease(t) == [t EXCEPT !.ops = {}]

\* the loss computed from the variables mvars on batch b
LossValue(mvars, vs, b) == [batch |-> b, params |-> [k \in DOMAIN mvars |-> vs[mvars[k]]]]

\* tape.gradient(loss, sources): one gradient per source, None for an unrecorded one
TapeGradient(t, sources) ==
  [k \in DOMAIN sources |->
     IF \E op \in t.ops : op.var = sources[k]
       THEN [wrt |-> sources[k], at |-> (CHOOSE op \in t.ops : op.var = sources[k]).val]
       ELSE NoGrad]

\* zip(grads, variables)
Zip(gs, vs) == [k \in 1..Min(Len(gs), Len(vs)) |-> <<gs[k], vs[k]>>]

\* the update rule applied to one variable
Update(val) == [val EXCEPT !.gen = @ + 1]

\* the update of the first n pairs of grads_and_vars; None gradients are skipped
ApplyFirst(pairs, n, vs) ==
  [v \in DOMAIN vs |->
     IF \E k \in 1..n : pairs[k][2] = v /\ pairs[k][1] # NoGrad
       THEN Update(vs[v]) ELSE vs[v]]

ApplyUpdates(pairs, vs) == ApplyFirst(pairs, Len(pairs), vs)

\* tf.train.get_or_create_global_step(): the one global step, created at 0
GetOrCreateGlobalStep(g) == IF g = NoVar THEN 0 ELSE g

\* apply_gradients(..., global_step=g) increments g after the updates
StepUnchanged(g) == g

IncrementStep(g) == g + 1

(* ------------------------------ checkpoint ----------------------------- *)

\* what root = tf.train.Checkpoint(optimizer, model, optimizer_step) saves
Snapshot(vs, g, sc) ==
  [model |-> [k \in DOMAIN CkptModelVars |-> vs[CkptModelVars[k]]],
   optimizer_step |-> g, save_counter |-> sc]

\* a checkpoint left by an earlier run of the save cell alone
OldSnapshot(n) == [model |-> <<>>, optimizer_step |-> 0, save_counter |-> n]

OldDisk(n) == [files |-> [k \in 1..n |-> OldSnapshot(k)], latest |-> n]

\* root.save(prefix): writes prefix-<save_counter> and updates the checkpoint state file
Save(d, snap) ==
  [files |-> [k \in DOMAIN d.files \cup {snap.save_counter} |->
                IF k = snap.save_counter THEN snap ELSE d.files[k]],
   latest |-> snap.save_counter]

\* tf.train.latest_checkpoint(dir): the path named by the checkpoint state file
HighestCheckpoint(d) ==
  IF DOMAIN d.files = {} THEN 0
  ELSE CHOOSE k \in DOMAIN d.files : \A m \in DOMAIN d.files : m <= k

LatestCheckpoint(d) == d.latest

(* ---------------------------- control flow ----------------------------- *)

\* the statements of the MNIST loop body, in source order
MnistBodyAppendLast ==
  <<"m_enter", "m_forward", "m_exit", "m_gradient", "m_apply", "m_append">>

MnistBody == <<"m_enter", "m_forward", "m_exit", "m_append", "m_gradient", "m_apply">>

\* the statements of the linear loop body (grad() inlined), in source order
LinearBodyApplyFirst ==
  <<"l_enter", "l_forward", "l_exit", "l_apply", "l_gradient", "l_log">>

LinearBody == <<"l_enter", "l_forward", "l_exit", "l_gradient", "l_apply", "l_log">>

\* the statement after p in a loop body; the loop head after the last one
After(body, head, p) ==
  LET k == CHOOSE n \in DOMAIN body : body[n] = p
  IN IF k < Len(body) THEN body[k + 1] ELSE head

\* for (batch, ...) in enumerate(dataset.take(400))
MnistHasNext(b) == b + 1 < Take(TakeCount)

\* for i in range(300)
LinearHasNextOffByOne(n) == n + 1 <= RangeCount

LinearHasNext(n) == n + 1 < RangeCount

\* an exception is not caught anywhere: the script stops
RaiseRetry(p) == p

Raise(p) == "error"

(* ------------------------------- actions ------------------------------- *)

Loops == {"mnist", "linear"}

NoTape == [recording |-> FALSE, ops |-> {}]

Init ==
  /\ pc = "demo_enter"
  /\ err = "none"
  /\ batch = -1
  /\ i = -1
  /\ vals = [v \in {} |-> NoValue]
  /\ gstep = NoVar
  /\ tape = NoTape
  /\ loss_value = NoLoss
  /\ grads = <<>>
  /\ loss_history = <<>>
  /\ printed = <<>>
  /\ save_counter = 0
  /\ disk \in {OldDisk(n) : n \in 0..MaxOldCkpt}
  /\ atSave = [vals |-> [v \in {} |-> NoValue], gstep |-> NoVar]
  /\ fwd = [l \in Loops |-> 0]
  /\ grd = [l \in Loops |-> 0]
  /\ app = [l \in Loops |-> 0]

Bump(f, l) == [f EXCEPT ![l] = @ + 1]

\* w = tf.Variable([[1.0]]); with tf.GradientTape() as tape:
DemoEnter ==
  /\ pc = "demo_enter"
  /\ vals' = CreateVariables(DemoVars, vals)
  /\ tape' = TapeEnter
  /\ pc' = "demo_forward"
  /\ UNCHANGED <<err, batch, i, gstep, loss_value, grads, loss_history, printed,
                 save_counter, disk, atSave, fwd, grd, app>>

\* loss = w * w
DemoForward ==
  /\ pc = "demo_forward"
  /\ tape' = Record(tape, DemoVars, vals)
  /\ loss_value' = LossValue(DemoVars, vals, -1)
  /\ pc' = "demo_exit"
  /\ UNCHANGED <<err, batch, i, vals, gstep, grads, loss_history, printed,
                 save_counter, disk, atSave, fwd, grd, app>>

\* end of the with block
DemoExit ==
  /\ pc = "demo_exit"
  /\ tape' = TapeExit(tape)
  /\ pc' = "demo_gradient"
  /\ UNCHANGED <<err, batch, i, vals, gstep, loss_value, grads, loss_history, printed,
                 save_counter, disk, atSave, fwd, grd, app>>

\* grad = tape.gradient(loss, w)
DemoGradient ==
  /\ pc = "demo_gradient"
  /\ grads' = TapeGradient(tape, DemoVars)
  /\ tape' = TapeRelease(tape)
  /\ pc' = "infer"
  /\ UNCHANGED <<err, batch, i, vals, gstep, loss_value, loss_history, printed,
                 save_counter, disk, atSave, fwd, grd, app>>

\* the dataset, mnist_model, and one inference on the first batch, outside any tape
Infer ==
  /\ pc = "infer"
  /\ LET vs == IF Take(1) > 0 THEN ModelCall(MnistVars, vals) ELSE vals
     IN /\ vals' = vs
        /\ tape' = IF Take(1) > 0 THEN Record(tape, MnistVars, vs) ELSE tape
  /\ pc' = "m_init"
  /\ UNCHANGED <<err, batch, i, gstep, loss_value, grads, loss_history, printed,
                 save_counter, disk, atSave, fwd, grd, app>>

\* optimizer = tf.train.AdamOptimizer(); loss_history = []
MInit ==
  /\ pc = "m_init"
  /\ loss_history' = <<>>
  /\ batch' = -1
  /\ pc' = "m_head"
  /\ UNCHANGED <<err, i, vals, gstep, tape, loss_value, grads, printed,
                 save_counter, disk, atSave, fwd, grd, app>>

\* for (batch, (images, labels)) in enumerate(dataset.take(400)):
MHead ==
  /\ pc = "m_head"
  /\ IF MnistHasNext(batch)
       THEN batch' = batch + 1 /\ pc' = MnistBody[1]
       ELSE batch' = batch /\ pc' = "l_model"
  /\ UNCHANGED <<err, i, vals, gstep, tape, loss_value, grads, loss_history, printed,
                 save_counter, disk, atSave, fwd, grd, app>>

\* with tf.GradientTape() as tape:
MEnter ==
  /\ pc = "m_enter"
  /\ tape' = TapeEnter
  /\ pc' = After(MnistBody, "m_head", "m_enter")
  /\ UNCHANGED <<err, batch, i, vals, gstep, loss_value, grads, loss_history, printed,
                 save_counter, disk, atSave, fwd, grd, app>>

\* logits = mnist_model(images, training=True); loss_value = ...cross_entropy(labels, logits)
MForward ==
  /\ pc = "m_forward"
  /\ LET vs == ModelCall(MnistVars, vals)
     IN /\ vals' = vs
        /\ tape' = Record(tape, MnistVars, vs)
        /\ loss_value' = LossValue(MnistVars, vs, batch)
  /\ fwd' = Bump(fwd, "mnist")
  /\ pc' = After(MnistBody, "m_head", "m_forward")
  /\ UNCHANGED <<err, batch, i, gstep, grads, loss_history, printed,
                 save_counter, disk, atSave, grd, app>>

\* end of the with block
MExit ==
  /\ pc = "m_exit"
  /\ tape' = TapeExit(tape)
  /\ pc' = After(MnistBody, "m_head", "m_exit")
  /\ UNCHANGED <<err, batch, i, vals, gstep, loss_value, grads, loss_history, printed,
                 save_counter, disk, atSave, fwd, grd, app>>

\* loss_history.append(loss_value.numpy())
MAppend ==
  /\ pc = "m_append"
  /\ loss_history' = Append(loss_history, loss_value)
  /\ pc' = After(MnistBody, "m_head", "m_append")
  /\ UNCHANGED <<err, batch, i, vals, gstep, tape, loss_value, grads, printed,
                 save_counter, disk, atSave, fwd, grd, app>>

\* grads = tape.gradient(loss_value, mnist_model.variables)
MGradient ==
  /\ pc = "m_gradient"
  /\ grads' = TapeGradient(tape, MnistSources)
  /\ tape' = TapeRelease(tape)
  /\ grd' = Bump(grd, "mnist")
  /\ pc' = After(MnistBody, "m_head", "m_gradient")
  /\ UNCHANGED <<err, batch, i, vals, gstep, loss_value, loss_history, printed,
                 save_counter, disk, atSave, fwd, app>>

\* optimizer.apply_gradients(zip(grads, mnist_model.variables), global_step=...)
MApply ==
  /\ pc = "m_apply"
  /\ vals' = ApplyUpdates(Zip(grads, MnistApplyVars), vals)
  /\ gstep' = IncrementStep(GetOrCreateGlobalStep(gstep))
  /\ app' = Bump(app, "mnist")
  /\ pc' = After(MnistBody, "m_head", "m_apply")
  /\ UNCHANGED <<err, batch, i, tape, loss_value, grads, loss_history, printed,
                 save_counter, disk, atSave, fwd, grd>>

\* the toy dataset; model = Model(); optimizer = GradientDescentOptimizer(0.01)
LModel ==
  /\ pc = "l_model"
  /\ vals' = CreateVariables(ModelVars, vals)
  /\ i' = -1
  /\ pc' = "l_init_loss"
  /\ UNCHANGED <<err, batch, gstep, tape, loss_value, grads, loss_history, printed,
                 save_counter, disk, atSave, fwd, grd, app>>

\* loss(model, inputs, targets), called outside any tape, and printed
PrintLoss(next) ==
  LET vs == ModelCall(ModelVars, vals)
  IN /\ vals' = vs
     /\ tape' = Record(tape, ModelVars, vs)
     /\ printed' = Append(printed, LossValue(ModelVars, vs, i))
     /\ pc' = next

\* print("Initial loss: ...")
LInitLoss ==
  /\ pc = "l_init_loss"
  /\ PrintLoss("l_head")
  /\ UNCHANGED <<err, batch, i, gstep, loss_value, grads, loss_history,
                 save_counter, disk, atSave, fwd, grd, app>>

\* for i in range(300):
LHead ==
  /\ pc = "l_head"
  /\ IF LinearHasNext(i)
       THEN i' = i + 1 /\ pc' = LinearBody[1]
       ELSE i' = i /\ pc' = "l_final"
  /\ UNCHANGED <<err, batch, vals, gstep, tape, loss_value, grads, loss_history, printed,
                 save_counter, disk, atSave, fwd, grd, app>>

\* grad(): with tf.GradientTape() as tape:
LEnter ==
  /\ pc = "l_enter"
  /\ tape' = TapeEnter
  /\ pc' = After(LinearBody, "l_head", "l_enter")
  /\ UNCHANGED <<err, batch, i, vals, gstep, loss_value, grads, loss_history, printed,
                 save_counter, disk, atSave, fwd, grd, app>>

\* grad(): loss_value = loss(model, inputs, targets)
LForward ==
  /\ pc = "l_forward"
  /\ LET vs == ModelCall(ModelVars, vals)
     IN /\ vals' = vs
        /\ tape' = Record(tape, ModelVars, vs)
        /\ loss_value' = LossValue(ModelVars, vs, i)
  /\ fwd' = Bump(fwd, "linear")
  /\ pc' = After(LinearBody, "l_head", "l_forward")
  /\ UNCHANGED <<err, batch, i, gstep, grads, loss_history, printed,
                 save_counter, disk, atSave, grd, app>>

\* grad(): end of the with block
LExit ==
  /\ pc = "l_exit"
  /\ tape' = TapeExit(tape)
  /\ pc' = After(LinearBody, "l_head", "l_exit")
  /\ UNCHANGED <<err, batch, i, vals, gstep, loss_value, grads, loss_history, printed,
                 save_counter, disk, atSave, fwd, grd, app>>

\* grad(): return tape.gradient(loss_value, [model.W, model.B])
LGradient ==
  /\ pc = "l_gradient"
  /\ grads' = TapeGradient(tape, LinearSources)
  /\ tape' = TapeRelease(tape)
  /\ grd' = Bump(grd, "linear")
  /\ pc' = After(LinearBody, "l_head", "l_gradient")
  /\ UNCHANGED <<err, batch, i, vals, gstep, loss_value, loss_history, printed,
                 save_counter, disk, atSave, fwd, app>>

\* optimizer.apply_gradients(zip(grads, [model.W, model.B]), global_step=...)
LApply ==
  /\ pc = "l_apply"
  /\ vals' = ApplyUpdates(Zip(grads, LinearApplyVars), vals)
  /\ gstep' = IncrementStep(GetOrCreateGlobalStep(gstep))
  /\ app' = Bump(app, "linear")
  /\ pc' = After(LinearBody, "l_head", "l_apply")
  /\ UNCHANGED <<err, batch, i, tape, loss_value, grads, loss_history, printed,
                 save_counter, disk, atSave, fwd, grd>>

\* if i % 20 == 0: print("Loss at step ...")
LLog ==
  /\ pc = "l_log"
  /\ IF i % LogEvery = 0
       THEN PrintLoss(After(LinearBody, "l_head", "l_log"))
       ELSE /\ pc' = After(LinearBody, "l_head", "l_log")
            /\ UNCHANGED <<vals, tape, printed>>
  /\ UNCHANGED <<err, batch, i, gstep, loss_value, grads, loss_history,
                 save_counter, disk, atSave, fwd, grd, app>>

\* print("Final loss: ..."); print("W = {}, B = {}")
LFinal ==
  /\ pc = "l_final"
  /\ PrintLoss("c_build")
  /\ UNCHANGED <<err, batch, i, gstep, loss_value, grads, loss_history,
                 save_counter, disk, atSave, fwd, grd, app>>

\* model = Sequential(...); optimizer = Adam; root = tf.train.Checkpoint(...)
CBuild ==
  /\ pc = "c_build"
  /\ gstep' = GetOrCreateGlobalStep(gstep)
  /\ save_counter' = 0
  /\ pc' = "c_save"
  /\ UNCHANGED <<err, batch, i, vals, tape, loss_value, grads, loss_history, printed,
                 disk, atSave, fwd, grd, app>>

\* root.save(checkpoint_prefix)
CSave ==
  /\ pc = "c_save"
  /\ atSave' = [vals |-> vals, gstep |-> gstep]
  /\ save_counter' = save_counter + 1
  /\ disk' = Save(disk, Snapshot(vals, gstep, save_counter + 1))
  /\ pc' = "c_restore"
  /\ UNCHANGED <<err, batch, i, vals, gstep, tape, loss_value, grads, loss_history,
                 printed, fwd, grd, app>>

\* the assignment of a checkpoint's values to the objects root tracks
Restored(vs, snap) ==
  [v \in DOMAIN vs |->
     IF \E k \in DOMAIN CkptModelVars : CkptModelVars[k] = v
       THEN snap.model[CHOOSE k \in DOMAIN CkptModelVars : CkptModelVars[k] = v]
       ELSE vs[v]]

\* root.restore(tf.train.latest_checkpoint(checkpoint_dir)); restore(None) does nothing
CRestore ==
  /\ pc = "c_restore"
  /\ LET path == LatestCheckpoint(disk)
     IN IF path = 0
          THEN UNCHANGED <<vals, gstep, save_counter>>
          ELSE /\ vals' = Restored(vals, disk.files[path])
               /\ gstep' = disk.files[path].optimizer_step
               /\ save_counter' = disk.files[path].save_counter
  /\ pc' = "done"
  /\ UNCHANGED <<err, batch, i, tape, loss_value, grads, loss_history, printed,
                 disk, atSave, fwd, grd, app>>

\* a framework call raises: nothing catches it
Fail ==
  /\ pc \notin {"done", "error"}
  /\ err' = pc
  /\ pc' = Raise(pc)
  /\ UNCHANGED <<batch, i, vals, gstep, tape, loss_value, grads, loss_history, printed,
                 save_counter, disk, atSave, fwd, grd, app>>

\* apply_gradients raises after it has updated some of the variables
ApplyFail ==
  /\ pc \in {"m_apply", "l_apply"}
  /\ LET pairs == IF pc = "m_apply" THEN Zip(grads, MnistApplyVars)
                                    ELSE Zip(grads, LinearApplyVars)
     IN \E n \in 1..(Len(pairs) - 1) : vals' = ApplyFirst(pairs, n, vals)
  /\ err' = pc
  /\ pc' = Raise(pc)
  /\ UNCHANGED <<batch, i, gstep, tape, loss_value, grads, loss_history, printed,
                 save_counter, disk, atSave, fwd, grd, app>>

Step ==
  \/ DemoEnter \/ DemoForward \/ DemoExit \/ DemoGradient
  \/ Infer \/ MInit \/ MHead \/ MEnter \/ MForward \/ MExit \/ MAppend
  \/ MGradient \/ MApply
  \/ LModel \/ LInitLoss \/ LHead \/ LEnter \/ LForward \/ LExit \/ LGradient
  \/ LApply \/ LLog \/ LFinal
  \/ CBuild \/ CSave \/ CRestore

Next == Step \/ Fail \/ ApplyFail

Spec == Init /\ [][Next]_vars

\* the interpreter runs the next statement whenever there is one, and no call raises
LiveSpec == Init /\ [][Step]_vars /\ WF_vars(Step)

(* ------------------------------ properties ----------------------------- *)

StepValue == IF gstep = NoVar THEN 0 ELSE gstep

\* the statements of a loop body before, and after, the taped forward pass has run
MnistBeforeForward == {"m_enter", "m_forward"}

MnistBeforeGradient == {"m_exit", "m_append", "m_gradient"}

LinearBeforeForward == {"l_enter", "l_forward"}

LinearBeforeGradient == {"l_exit", "l_gradient"}

AfterMnistLoop ==
  {"l_model", "l_init_loss", "l_head", "l_final", "c_build", "c_save", "c_restore", "done"}
    \cup Range(LinearBody)

AfterLinearLoop == {"l_final", "c_build", "c_save", "c_restore", "done"}

\* C1: in both training loops the k-th apply_gradients comes after the k-th
\* gradient computation, which comes after the k-th taped forward pass, and
\* iteration k+1 starts no phase before the k-th apply_gradients is complete.
C1_PhaseOrder ==
  /\ \A l \in Loops : app[l] <= grd[l] /\ grd[l] <= fwd[l] /\ fwd[l] <= app[l] + 1
  /\ pc \in MnistBeforeForward =>
       fwd["mnist"] = batch /\ grd["mnist"] = batch /\ app["mnist"] = batch
  /\ pc \in MnistBeforeGradient =>
       fwd["mnist"] = batch + 1 /\ grd["mnist"] = batch /\ app["mnist"] = batch
  /\ pc = "m_apply" =>
       fwd["mnist"] = batch + 1 /\ grd["mnist"] = batch + 1 /\ app["mnist"] = batch
  /\ pc = "m_head" =>
       fwd["mnist"] = batch + 1 /\ grd["mnist"] = batch + 1 /\ app["mnist"] = batch + 1
  /\ pc \in LinearBeforeForward =>
       fwd["linear"] = i /\ grd["linear"] = i /\ app["linear"] = i
  /\ pc \in LinearBeforeGradient =>
       fwd["linear"] = i + 1 /\ grd["linear"] = i /\ app["linear"] = i
  /\ pc = "l_apply" =>
       fwd["linear"] = i + 1 /\ grd["linear"] = i + 1 /\ app["linear"] = i
  /\ pc \in {"l_log", "l_head"} =>
       fwd["linear"] = i + 1 /\ grd["linear"] = i + 1 /\ app["linear"] = i + 1

C1_Witness ==
  /\ pc = "l_apply" /\ i = 5 /\ grd["linear"] = 6 /\ app["linear"] = 5
  /\ app["mnist"] = 400

\* C2: every completed apply_gradients call has updated each variable it was given
\* and incremented the one global step by one: the global step equals the number
\* of apply_gradients calls completed in both loops, and it is the value the
\* checkpoint stores.
C2_StepCounter ==
  /\ StepValue = app["mnist"] + app["linear"]
  /\ pc \in MnistBeforeForward \cup MnistBeforeGradient \cup {"m_apply", "m_head"} =>
       \A k \in DOMAIN MnistVars : vals[MnistVars[k]].gen = app["mnist"]
  /\ pc \in Range(LinearBody) \cup {"l_head"} \cup AfterLinearLoop =>
       /\ \A k \in DOMAIN ModelVars : vals[ModelVars[k]].gen = app["linear"]
       /\ \A k \in DOMAIN MnistVars : vals[MnistVars[k]].gen = app["mnist"]
  /\ pc \in {"c_restore", "done"} =>
       disk.files[disk.latest].optimizer_step = app["mnist"] + app["linear"]

C2_Witness == pc = "l_head" /\ gstep = 450 /\ app["linear"] = 50

\* C3: only apply_gradients changes the value of an existing variable, and when a
\* step's gradient is computed every variable still has the value the taped
\* forward pass of that step read.
C3_OnlyOptimizerMutates ==
  /\ [][\A v \in DOMAIN vals : vals'[v] # vals[v] => pc \in {"m_apply", "l_apply"}]_vars
  /\ [](pc \in {"demo_gradient", "m_gradient", "l_gradient"} =>
          /\ tape.ops # {}
          /\ \A op \in tape.ops : vals[op.var] = op.val)

C3_Witness ==
  /\ pc = "l_gradient" /\ i = 3
  /\ [var |-> "W", val |-> [init |-> "5.0", gen |-> 3]] \in tape.ops
  /\ Len(printed) = 2

\* C4: root.save writes the in-memory values and the global step, restore reads
\* back the checkpoint that save wrote, and after the pair every variable and
\* the global step have the value they had when save was called.
C4_SaveRestore ==
  /\ pc \in {"c_restore", "done"} =>
       /\ disk.latest \in DOMAIN disk.files
       /\ disk.files[disk.latest].optimizer_step = atSave.gstep
       /\ disk.files[disk.latest].model =
            [k \in DOMAIN CkptModelVars |-> atSave.vals[CkptModelVars[k]]]
  /\ pc = "done" => vals = atSave.vals /\ gstep = atSave.gstep

C4_Witness ==
  /\ pc = "done" /\ gstep = 700 /\ DOMAIN disk.files = {1, 2}
  /\ disk.files[2].optimizer_step = 0

\* C5: at each apply_gradients call there is one gradient per variable, and the
\* k-th gradient is the gradient with respect to the k-th variable it is zipped
\* with, taken at that variable's current value.
Paired(gs, vs) ==
  /\ Len(gs) = Len(vs)
  /\ \A k \in DOMAIN Zip(gs, vs) :
       /\ Zip(gs, vs)[k][1].wrt = Zip(gs, vs)[k][2]
       /\ Zip(gs, vs)[k][1].at = vals[Zip(gs, vs)[k][2]]

C5_GradsMatchVars ==
  /\ pc = "m_apply" => Len(grads) = Len(MnistSources) /\ Paired(grads, MnistApplyVars)
  /\ pc = "l_apply" => Len(grads) = Len(LinearSources) /\ Paired(grads, LinearApplyVars)

C5_Witness ==
  /\ pc = "l_apply" /\ i = 2 /\ Len(grads) = 2
  /\ grads[2] = [wrt |-> "B", at |-> [init |-> "10.0", gen |-> 2]]

\* C6: the linear loop is left, with exactly 300 gradient computations and 300
\* apply_gradients calls made; the MNIST loop is left after at most 400 steps,
\* one per batch taken; the loop variable counts the steps made, none skipped
\* and none repeated.
C6_LoopsTerminate ==
  /\ <>(pc = "l_final")
  /\ [](pc \in AfterLinearLoop =>
          fwd["linear"] = 300 /\ grd["linear"] = 300 /\ app["linear"] = 300)
  /\ [](pc \in AfterMnistLoop =>
          /\ app["mnist"] <= 400
          /\ app["mnist"] = Take(400)
          /\ fwd["mnist"] = app["mnist"] /\ grd["mnist"] = app["mnist"])
  /\ [](pc \in Range(MnistBody) => batch = app["mnist"] /\ batch < 400)
  /\ [](pc \in Range(LinearBody) \ {"l_log"} => i = app["linear"] /\ i < 300)

C6_Witness ==
  /\ pc = "l_final" /\ i = 299 /\ batch = 399
  /\ grd["linear"] = 300 /\ app["linear"] = 300 /\ app["mnist"] = 400

\* C8 as stated: whenever no recording scope is open the tape holds nothing.
C8_ReleasedAtScopeEnd == ~tape.recording => tape.ops = {}

\* C8 as amended: the tape gains entries only while its scope is open; what it
\* recorded is kept after the scope ends, until tape.gradient has been called,
\* and is gone before the next statement after that call.
C8_TapeScope ==
  /\ [][tape'.ops \ tape.ops # {} => tape.recording /\ tape'.recording]_vars
  /\ [](tape.recording => pc \in {"demo_forward", "demo_exit", "m_forward", "m_exit",
                                   "l_forward", "l_exit", "error"})
  /\ [](pc \in {"demo_gradient", "m_append", "m_gradient", "l_gradient"} =>
          ~tape.recording /\ tape.ops # {})
  /\ [](tape.ops # {} => pc \in {"demo_exit", "demo_gradient", "m_exit", "m_append",
                                  "m_gradient", "l_exit", "l_gradient", "error"})

C8_Witness ==
  /\ pc = "m_apply" /\ batch = 3 /\ grd["mnist"] = 4
  /\ ~tape.recording /\ tape.ops = {}

\* C9: once a call has raised, the script is in its error state and executes
\* nothing more: no retry of the failed step and no later step.
C9_FailureStops ==
  /\ [](err # "none" => pc = "error")
  /\ [][err = "none"]_vars

C9_Witness == pc = "error" /\ err = "l_apply" /\ app["linear"] = 7 /\ vals["W"].gen = 8

\* C10: the MNIST loop appends one loss per step, after the forward pass and
\* before apply_gradients; between steps the list is as long as the number of
\* updates made, and its k-th entry is the loss of batch k-1 at the parameter
\* values left by the first k-1 updates.
C10_LossHistory ==
  /\ pc \in {"m_head", "m_enter", "m_forward", "m_exit", "m_append"} \cup AfterMnistLoop =>
       Len(loss_history) = app["mnist"]
  /\ pc \in {"m_gradient", "m_apply"} => Len(loss_history) = app["mnist"] + 1
  /\ \A k \in DOMAIN loss_history :
       loss_history[k] =
         [batch |-> k - 1,
          params |-> [j \in DOMAIN MnistVars |->
                        [init |-> Initializer(MnistVars[j]), gen |-> k - 1]]]

C10_Witness ==
  /\ pc = "m_head" /\ Len(loss_history) = 5 /\ app["mnist"] = 5
  /\ loss_history[5].params[1].gen = 4

====
